---- MODULE Spec2Model ----
(***************************************************************************)
(* Model of the n1sk4/logger singleton: a buffered, size-rotated file      *)
(* logger (Logger::init / log / flush / ~Logger and their helpers).        *)
(*                                                                         *)
(* A log line is a record; its byte length is carried in the field len so  *)
(* that the size accounting of the code can be followed byte for byte.     *)
(* The file system is a function from the names of the existing files to   *)
(* their content (a sequence of lines).  The std::ofstream m_logFile is a  *)
(* record: whether it is open, on which file, and whether its state has    *)
(* failbit/badbit set (every insertion is then a no-op).                   *)
(***************************************************************************)
EXTENDS Integers, Sequences, FiniteSets, TLC

(* ------------------------------ bounds --------------------------------- *)
NThreads == 2
\* total number of Logger::log calls made by the callers
MaxEmits == 3
\* total number of Logger::init calls made by the callers
MaxInits == 2
\* the clock advances at most this many times
MaxTicks == 1
\* number of failures the file system and the device may produce
MaxFaults == 2
\* the readings of the system clock go up to this many whole seconds
MaxSeconds == 1
\* LOG_BUFFER_CAPACITY of logger.hpp (100 there), scaled down
LOG_BUFFER_CAPACITY == 3

(* ------------------------- program constants --------------------------- *)
FLUSH_INTERVAL_MS == 1000
BUFFER_SIZE == 256
\* "[" + 23 characters of timestamp + "] [" + 5 characters of level + "] "
LinePrefixLen == 34
\* "[" + timestamp + "] [INFO] Logger initialized\n"
InitMarkerLen == 52
\* "[" + timestamp + "] [INFO] Logger shutdown\n"
ShutdownMarkerLen == 49

ERR == 0
WARNING == 1
INFO == 2
DEBUG == 3
LogLevel == {ERR, WARNING, INFO, DEBUG}

(* ------------------------------ inputs --------------------------------- *)
Threads == 1..NThreads
NoThread == 0
\* the clock advances by one flush interval at a time
TickMs == FLUSH_INTERVAL_MS
\* lengths of the caller's formatted messages
MsgLens == {33, 65}
\* the levels and message lengths used by concurrent callers
ConcLevels == {INFO}
ConcThresholds == {WARNING, DEBUG}
ConcMsgLens == {65}
Paths == {"app.log", "logs/app.log"}
\* the argument lists the callers pass to init
InitArgs ==
  { [logFilePath |-> "app.log", level |-> DEBUG, consoleOutput |-> TRUE,
     maxFileSize |-> 200],
    [logFilePath |-> "logs/app.log", level |-> WARNING, consoleOutput |-> FALSE,
     maxFileSize |-> 120] }
\* content found in a file that exists before the logger starts
OldLine == [kind |-> "old", id |-> 0, lvl |-> INFO, tag |-> "INFO ", ts |-> 0, len |-> 60]

(* ------------------------------ helpers -------------------------------- *)
Bak(p) == p \o ".bak"

\* std::filesystem::path::parent_path of the two paths in use
ParentPath(p) == IF p = "logs/app.log" THEN "logs" ELSE ""

RECURSIVE Bytes(_)
Bytes(lines) == IF lines = <<>> THEN 0 ELSE Head(lines).len + Bytes(Tail(lines))

Min(a, b) == IF a < b THEN a ELSE b

logLevelToString(level) ==
  CASE level = ERR -> "ERROR"
    [] level = WARNING -> "WARN "
    [] level = INFO -> "INFO "
    [] level = DEBUG -> "DEBUG"
    [] OTHER -> "?????"

\* vsnprintf(buffer, m_bufferSize, ...) keeps at most m_bufferSize - 1 bytes
Rendered(msgLen) == Min(msgLen, BUFFER_SIZE - 1)

\* logStream << "[" << ts << "] [" << tag << "] " << buffer << "\n"
LogEntry(id, level, ts, msgLen) ==
  [kind |-> "msg", id |-> id, lvl |-> level, tag |-> logLevelToString(level),
   ts |-> ts, len |-> LinePrefixLen + Rendered(msgLen) + 1]

InitMessage(ts) ==
  [kind |-> "init", id |-> 0, lvl |-> INFO, tag |-> "INFO", ts |-> ts, len |-> InitMarkerLen]

ShutdownMsg(ts) ==
  [kind |-> "shutdown", id |-> 0, lvl |-> INFO, tag |-> "INFO", ts |-> ts, len |-> ShutdownMarkerLen]

\* a level test that also rejects the threshold level itself
FilteredAtThreshold(initialized, level, currentLevel) ==
  ~initialized \/ level >= currentLevel

\* a level test that forgets m_initialized
FilteredByLevelOnly(initialized, level, currentLevel) == level > currentLevel

\* the level test of Logger::log: TRUE when the call returns at once
Filtered(initialized, level, currentLevel) == ~initialized \/ level > currentLevel

(* ----------------- the writer state and its operations ----------------- *)
(* The private helpers of Logger are operators on a record w:              *)
(*   fs    the files: name -> content                                      *)
(*   dirs  the directories that exist                                      *)
(*   lf    m_logFile: [open, path, bad]                                    *)
(*   buf   m_messageBuffer                                                 *)
(*   size  m_currentFileSize                                               *)
(*   cerr  what was written to std::cerr                                   *)
(*   ok    the bool a helper returned last                                 *)
(*   rot   number of rotations checkRotation has started (bookkeeping)     *)
(*   fault number of failures the environment has produced (bookkeeping)   *)
ClosedFile == [open |-> FALSE, path |-> "", bad |-> FALSE]

\* m_logFile << each of lines, wrOk: the device accepts the bytes
StreamWrite(w, lines, wrOk) ==
  IF lines = <<>> THEN w
  ELSE IF w.lf.open /\ ~w.lf.bad
       THEN IF wrOk THEN [w EXCEPT !.fs[w.lf.path] = @ \o lines]
            ELSE [w EXCEPT !.lf.bad = TRUE, !.fault = @ + 1]
       ELSE [w EXCEPT !.lf.bad = TRUE]

\* an openLogFile that reports success when neither open succeeded
OpenLogFileNoCheck(w, path, res) ==
  IF w.lf.open THEN [w EXCEPT !.ok = TRUE]
  ELSE IF (ParentPath(path) # "" /\ ParentPath(path) \notin w.dirs) \/ res = "fail"
       THEN [w EXCEPT !.ok = TRUE, !.lf.bad = TRUE]
       ELSE LET content == IF res = "app" /\ path \in DOMAIN w.fs THEN w.fs[path] ELSE <<>>
            IN [w EXCEPT !.fs = [f \in DOMAIN w.fs \cup {path} |->
                                   IF f = path THEN content ELSE w.fs[f]],
                         !.lf = [open |-> TRUE, path |-> path, bad |-> FALSE],
                         !.size = Bytes(content),
                         !.ok = TRUE]

\* an openLogFile that always opens with std::ios_base::out alone, which
\* truncates the file
OpenLogFileTruncating(w, path, res) ==
  IF w.lf.open THEN [w EXCEPT !.ok = TRUE]
  ELSE IF ParentPath(path) # "" /\ ParentPath(path) \notin w.dirs
       THEN [w EXCEPT !.ok = FALSE, !.lf.bad = TRUE]
  ELSE IF res = "fail"
       THEN [w EXCEPT !.ok = FALSE, !.lf.bad = TRUE, !.fault = @ + 1]
       ELSE [w EXCEPT !.fs = [f \in DOMAIN w.fs \cup {path} |->
                                IF f = path THEN <<>> ELSE w.fs[f]],
                      !.lf = [open |-> TRUE, path |-> path, bad |-> FALSE],
                      !.size = 0,
                      !.fault = IF res = "trunc" THEN @ + 1 ELSE @,
                      !.ok = TRUE]

\* res: "app" the append open succeeds, "trunc" only the second open
\* (std::ios_base::out, which truncates) succeeds, "fail" neither does
OpenLogFile(w, path, res) ==
  IF w.lf.open THEN [w EXCEPT !.ok = TRUE]
  ELSE IF ParentPath(path) # "" /\ ParentPath(path) \notin w.dirs
       THEN [w EXCEPT !.ok = FALSE, !.lf.bad = TRUE]
  ELSE IF res = "fail"
       THEN [w EXCEPT !.ok = FALSE, !.lf.bad = TRUE, !.fault = @ + 1]
       ELSE LET content == IF res = "app" /\ path \in DOMAIN w.fs THEN w.fs[path] ELSE <<>>
            IN [w EXCEPT !.fs = [f \in DOMAIN w.fs \cup {path} |->
                                   IF f = path THEN content ELSE w.fs[f]],
                         !.lf = [open |-> TRUE, path |-> path, bad |-> FALSE],
                         !.size = Bytes(content),
                         !.fault = IF res = "trunc" THEN @ + 1 ELSE @,
                         !.ok = TRUE]

CloseLogFile(w) ==
  IF w.lf.open THEN [w EXCEPT !.lf.open = FALSE, !.lf.path = ""] ELSE w

RECURSIVE Reverse(_)
Reverse(q) == IF q = <<>> THEN <<>> ELSE Append(Reverse(Tail(q)), Head(q))

\* a flushBuffer that walks the buffer from the back
FlushBufferReversed(w, wrOk) ==
  [StreamWrite(w, Reverse(w.buf), wrOk) EXCEPT !.buf = <<>>]

\* a flushBuffer without m_messageBuffer.clear()
FlushBufferNoClear(w, wrOk) == StreamWrite(w, w.buf, wrOk)

\* the loop of flushBuffer, m_logFile.flush() and m_messageBuffer.clear()
FlushBuffer(w, wrOk) ==
  [StreamWrite(w, w.buf, wrOk) EXCEPT !.buf = <<>>]

\* res: "created"; "error" when create_directories throws; "raced" when
\* another process creates the directory after exists(dir) has returned false,
\* so that create_directories finds it there and returns false
CreateLogDirectory(w, filePath, res) ==
  LET dir == ParentPath(filePath) IN
  IF dir = "" THEN [w EXCEPT !.ok = TRUE]
  ELSE IF dir \in w.dirs THEN [w EXCEPT !.ok = TRUE]
  ELSE IF res = "created" THEN [w EXCEPT !.dirs = @ \cup {dir}, !.ok = TRUE]
  ELSE IF res = "raced" THEN [w EXCEPT !.dirs = @ \cup {dir}, !.ok = FALSE,
                                       !.fault = @ + 1]
  ELSE [w EXCEPT !.cerr = Append(@, "Error creating directory"), !.ok = FALSE,
                 !.fault = @ + 1]

RemoveFile(fs, f) == [g \in DOMAIN fs \ {f} |-> fs[g]]

\* a rotation that adds the file to the backup that exists
RotateLogFileKeepsOld(w, path, rmOk, mvOk) ==
  IF path \notin DOMAIN w.fs
  THEN [w EXCEPT !.cerr = Append(@, "Failed to rename log file")]
  ELSE [w EXCEPT !.fs = [f \in (DOMAIN w.fs \ {path}) \cup {Bak(path)} |->
                           IF f = Bak(path)
                           THEN (IF Bak(path) \in DOMAIN w.fs THEN w.fs[Bak(path)] ELSE <<>>)
                                  \o w.fs[path]
                           ELSE w.fs[f]]]

\* rmOk, mvOk: std::filesystem::remove / rename report no error
RotateLogFile(w, path, rmOk, mvOk) ==
  LET w1 == IF Bak(path) \in DOMAIN w.fs
            THEN IF rmOk THEN [w EXCEPT !.fs = RemoveFile(w.fs, Bak(path))]
                 ELSE [w EXCEPT !.cerr = Append(@, "Failed to remove backup file"),
                                !.fault = @ + 1]
            ELSE w
  IN IF path \notin DOMAIN w1.fs
     THEN [w1 EXCEPT !.cerr = Append(@, "Failed to rename log file")]
     ELSE IF mvOk
     THEN [w1 EXCEPT !.fs = [f \in (DOMAIN w1.fs \ {path}) \cup {Bak(path)} |->
                               IF f = Bak(path) THEN w1.fs[path] ELSE w1.fs[f]]]
     ELSE [w1 EXCEPT !.cerr = Append(@, "Failed to rename log file"), !.fault = @ + 1]

\* a rotation test that also fires when the line exactly fills the budget
ShouldRotateAtEqual(currentFileSize, messageSize, maxFileSize) ==
  currentFileSize + messageSize >= maxFileSize

\* the condition of checkRotation
ShouldRotate(currentFileSize, messageSize, maxFileSize) ==
  currentFileSize + messageSize > maxFileSize

\* a checkRotation that rotates without writing the pending lines first
CheckRotationNoDrain(w, path, maxFileSize, messageSize, e) ==
  IF ShouldRotate(w.size, messageSize, maxFileSize)
  THEN LET w2 == CloseLogFile(w)
           w3 == RotateLogFile(w2, path, e.rmOk, e.mvOk)
           w4 == OpenLogFile(w3, path, e.open2)
       IN [w4 EXCEPT !.size = 0, !.rot = @ + 1]
  ELSE w

\* e: the outcomes of the environment during this call
CheckRotation(w, path, maxFileSize, messageSize, e) ==
  IF ShouldRotate(w.size, messageSize, maxFileSize)
  THEN LET w1 == [StreamWrite(w, w.buf, e.wrOk) EXCEPT !.buf = <<>>]
           w2 == CloseLogFile(w1)
           w3 == RotateLogFile(w2, path, e.rmOk, e.mvOk)
           w4 == OpenLogFile(w3, path, e.open2)
       IN [w4 EXCEPT !.size = 0, !.rot = @ + 1]
  ELSE w


(* ------------------------------- state --------------------------------- *)
VARIABLES
  m_initialized, m_currentLevel, m_logFilePath, m_consoleOutput, m_maxFileSize,
  m_lastFlushTime, m_logMutex, m_logFile, m_messageBuffer, m_currentFileSize,
  fs,        \* the files: name -> sequence of lines
  dirs,      \* the directories that exist
  cout,      \* the lines written to std::cout
  cerr,      \* the diagnostics written to std::cerr
  now,       \* the clock, in milliseconds
  pc,        \* where each caller thread is
  local,     \* the arguments and locals of the call a thread is in
  ret,       \* what the last init call of a thread returned: "true", "false"
  alive,     \* FALSE once the static instance has been destroyed
  nCalls,    \* number of log calls made so far (gives each call its id)
  nInits,    \* number of init calls made so far
  admitted,  \* ids of the log calls that passed the level test
  enq,       \* ids in the order of m_messageBuffer.push_back
  rot,       \* number of rotations checkRotation has started
  fault,     \* number of failures the environment has produced
  movedFrom, \* what the library leaves in a moved-from std::string
  lastDrain, \* the time at which the pending lines were last written out
  wallClock, \* std::chrono::system_clock, in microseconds since the epoch
  timestampBuffer \* what the last call of getTimestamp has produced

config == <<m_initialized, m_currentLevel, m_logFilePath, m_consoleOutput, m_maxFileSize>>
writer == <<m_logFile, m_messageBuffer, m_currentFileSize, fs, dirs, cerr, rot, fault>>
vars == <<config, m_lastFlushTime, m_logMutex, writer, cout, now, pc, local, ret,
          alive, nCalls, nInits, admitted, enq, movedFrom, lastDrain, wallClock,
          timestampBuffer>>

\* the writer state as the record the helper operators work on
W == [fs |-> fs, dirs |-> dirs, lf |-> m_logFile, buf |-> m_messageBuffer,
      size |-> m_currentFileSize, cerr |-> cerr, ok |-> TRUE, rot |-> rot,
      fault |-> fault]

SetW(w) ==
  /\ fs' = w.fs
  /\ dirs' = w.dirs
  /\ m_logFile' = w.lf
  /\ m_messageBuffer' = w.buf
  /\ m_currentFileSize' = w.size
  /\ cerr' = w.cerr
  /\ rot' = w.rot
  /\ fault' = w.fault
  /\ w.fault <= MaxFaults

NoLocal == [op |-> "none"]

\* a timestamp buffer nothing has been written to
NoTimestamp == [written |-> FALSE, sec |-> 0, mmm |-> 0]

OpenRes == {"app", "trunc", "fail"}
\* what the environment does during one critical section of log
Env == [open1 : OpenRes, open2 : OpenRes, wrOk : BOOLEAN, rmOk : BOOLEAN,
        mvOk : BOOLEAN]

\* what is on the disk when the process starts: nothing, or an older
\* app.log and the directory logs
InitialDisk ==
  { [fs |-> <<>>, dirs |-> {}],
    [fs |-> [f \in {"app.log"} |-> <<OldLine>>], dirs |-> {"logs"}] }

\* Logger::Logger(), the static instance before any call, with the caller
\* threads of the run and the reading us of the system clock
ConstructedAt(threads, us) ==
  /\ m_initialized = FALSE
  /\ m_currentLevel = INFO
  /\ m_logFilePath = "./logs/logger.log"
  /\ m_consoleOutput = TRUE
  /\ m_maxFileSize = 32768
  /\ m_lastFlushTime = 0
  /\ m_logMutex = NoThread
  /\ m_logFile = ClosedFile
  /\ m_messageBuffer = <<>>
  /\ m_currentFileSize = 0
  /\ \E d \in InitialDisk : fs = d.fs /\ dirs = d.dirs
  /\ cout = <<>>
  /\ cerr = <<>>
  /\ now = 0
  /\ pc = [t \in threads |-> "idle"]
  /\ local = [t \in threads |-> NoLocal]
  /\ ret = [t \in threads |-> "none"]
  /\ alive = TRUE
  /\ nCalls = 0
  /\ nInits = 0
  /\ admitted = {}
  /\ enq = <<>>
  /\ rot = 0
  /\ fault = 0
  /\ movedFrom \in {"empty", "intact"}
  /\ lastDrain = 0
  /\ wallClock = us
  /\ timestampBuffer = NoTimestamp

Constructed(threads) == ConstructedAt(threads, 0)

\* the logger after thread 1 has called init(a) at time 0 on the disk d and
\* init has returned true, the other threads not having called anything
Initialized(threads, a, d) ==
  LET w0 == [fs |-> d.fs, dirs |-> d.dirs, lf |-> ClosedFile, buf |-> <<>>, size |-> 0,
             cerr |-> <<>>, ok |-> TRUE, rot |-> 0, fault |-> 0]
      w1 == CreateLogDirectory(w0, a.logFilePath, "created")
      w2 == OpenLogFile(w1, a.logFilePath, "app")
      w4 == StreamWrite(w2, <<InitMessage(0)>>, TRUE)
      w5 == [w4 EXCEPT !.size = @ + InitMarkerLen]
  IN
  /\ m_initialized = TRUE
  /\ m_currentLevel = a.level
  /\ m_logFilePath = a.logFilePath
  /\ m_consoleOutput = a.consoleOutput
  /\ m_maxFileSize = a.maxFileSize
  /\ m_lastFlushTime = 0
  /\ m_logMutex = NoThread
  /\ m_logFile = w5.lf
  /\ m_messageBuffer = <<>>
  /\ m_currentFileSize = w5.size
  /\ fs = w5.fs
  /\ dirs = w5.dirs
  /\ cout = <<>>
  /\ cerr = <<>>
  /\ now = 0
  /\ pc = [t \in threads |-> "idle"]
  /\ local = [t \in threads |->
               IF t = 1 THEN [op |-> "init", logFilePath |-> a.logFilePath,
                              level |-> a.level, consoleOutput |-> a.consoleOutput,
                              maxFileSize |-> a.maxFileSize]
               ELSE NoLocal]
  /\ ret = [t \in threads |-> IF t = 1 THEN "true" ELSE "none"]
  /\ alive = TRUE
  /\ nCalls = 0
  /\ nInits = 1
  /\ admitted = {}
  /\ enq = <<>>
  /\ rot = 0
  /\ fault = 0
  /\ movedFrom \in {"empty", "intact"}
  /\ lastDrain = 0
  /\ wallClock = 0
  /\ timestampBuffer = NoTimestamp

(* ------------------------------ the clock ------------------------------ *)
Tick ==
  /\ alive
  /\ now < MaxTicks * TickMs
  /\ now' = now + TickMs
  /\ UNCHANGED <<config, m_lastFlushTime, m_logMutex, writer, cout, pc, local, ret,
                 alive, nCalls, nInits, admitted, enq, movedFrom, wallClock, timestampBuffer, lastDrain>>

(* ---------------------------- Logger::init ----------------------------- *)
InitCall(t, args) ==
  /\ alive
  /\ pc[t] = "idle"
  /\ nInits < MaxInits
  /\ nInits' = nInits + 1
  /\ local' = [local EXCEPT ![t] = [op |-> "init", logFilePath |-> args.logFilePath,
                                    level |-> args.level,
                                    consoleOutput |-> args.consoleOutput,
                                    maxFileSize |-> args.maxFileSize]]
  /\ pc' = [pc EXCEPT ![t] = "init_check"]
  /\ ret' = [ret EXCEPT ![t] = "none"]
  /\ UNCHANGED <<config, m_lastFlushTime, m_logMutex, writer, cout, now, alive,
                 nCalls, admitted, enq, movedFrom, wallClock, timestampBuffer, lastDrain>>

\* an init without the m_initialized guard
InitCheckNoGuard(t) ==
  /\ pc[t] = "init_check"
  /\ pc' = [pc EXCEPT ![t] = "init_body"]
  /\ UNCHANGED <<config, m_lastFlushTime, m_logMutex, writer, cout, now, local, ret,
                 alive, nCalls, nInits, admitted, enq, movedFrom, wallClock, timestampBuffer, lastDrain>>

\* if (m_initialized) return true;
InitCheck(t) ==
  /\ pc[t] = "init_check"
  /\ IF m_initialized
     THEN /\ pc' = [pc EXCEPT ![t] = "idle"]
          /\ ret' = [ret EXCEPT ![t] = "true"]
     ELSE /\ pc' = [pc EXCEPT ![t] = "init_body"]
          /\ ret' = ret
  /\ UNCHANGED <<config, m_lastFlushTime, m_logMutex, writer, cout, now, local,
                 alive, nCalls, nInits, admitted, enq, movedFrom, wallClock, timestampBuffer, lastDrain>>

\* a size counter that starts from zero instead of the size on disk
TellpZero(w) == 0

\* m_logFile.tellp(): -1 when the stream has failed
Tellp(w) == IF w.lf.bad \/ ~w.lf.open THEN -1 ELSE Bytes(w.fs[w.lf.path])

\* the rest of init; dirRes, openRes, wrOk are the environment's outcomes
InitBody(t, dirRes, openRes, wrOk) ==
  /\ pc[t] = "init_body"
  /\ m_logFilePath' = local[t].logFilePath
  /\ m_currentLevel' = local[t].level
  /\ m_consoleOutput' = local[t].consoleOutput
  /\ m_maxFileSize' = local[t].maxFileSize
  /\ LET w1 == CreateLogDirectory(W, local[t].logFilePath, dirRes)
         w2 == OpenLogFile(w1, local[t].logFilePath, openRes)
         \* size_t arithmetic: (size_t)-1 + n wraps around to n - 1
         w3 == [w2 EXCEPT !.size = Tellp(w2)]
         w4 == StreamWrite(w3, <<InitMessage(now)>>, wrOk)
         w5 == [w4 EXCEPT !.size = @ + InitMarkerLen]
     IN IF ~w1.ok
        THEN /\ SetW([w1 EXCEPT !.cerr = Append(@, "Failed to create log directory")])
             /\ ret' = [ret EXCEPT ![t] = "false"]
             /\ m_initialized' = m_initialized
        ELSE IF ~w2.ok
        THEN /\ SetW([w2 EXCEPT !.cerr = Append(@, "Failed to initialize logger file")])
             /\ ret' = [ret EXCEPT ![t] = "false"]
             /\ m_initialized' = m_initialized
        ELSE /\ SetW(w5)
             /\ ret' = [ret EXCEPT ![t] = "true"]
             /\ m_initialized' = TRUE
  /\ pc' = [pc EXCEPT ![t] = "idle"]
  /\ UNCHANGED <<m_lastFlushTime, m_logMutex, cout, now, local, alive, nCalls,
                 nInits, admitted, enq, movedFrom, wallClock, timestampBuffer, lastDrain>>


(* ----------------------------- Logger::log ----------------------------- *)
LogCall(t, level, msgLen) ==
  /\ alive
  /\ pc[t] = "idle"
  /\ nCalls < MaxEmits
  /\ nCalls' = nCalls + 1
  /\ local' = [local EXCEPT ![t] = [op |-> "log", id |-> nCalls + 1, level |-> level,
                                    msgLen |-> msgLen, ts |-> 0]]
  /\ pc' = [pc EXCEPT ![t] = "log_check"]
  /\ UNCHANGED <<config, m_lastFlushTime, m_logMutex, writer, cout, now, ret, alive,
                 nInits, admitted, enq, movedFrom, wallClock, timestampBuffer, lastDrain>>

\* the level test, then getTimestamp and vsnprintf into the locals
LogCheck(t) ==
  /\ pc[t] = "log_check"
  /\ IF Filtered(m_initialized, local[t].level, m_currentLevel)
     THEN /\ pc' = [pc EXCEPT ![t] = "idle"]
          /\ local' = [local EXCEPT ![t] = NoLocal]
          /\ admitted' = admitted
     ELSE /\ pc' = [pc EXCEPT ![t] = "log_lock"]
          /\ local' = [local EXCEPT ![t].ts = now]
          /\ admitted' = admitted \cup {local[t].id}
  /\ UNCHANGED <<config, m_lastFlushTime, m_logMutex, writer, cout, now, ret, alive,
                 nCalls, nInits, enq,
                 movedFrom, wallClock, timestampBuffer, lastDrain>>

\* a lock that does not exclude
AcquirableAlways(mutex) == TRUE

\* std::mutex::lock
Acquirable(mutex) == mutex = NoThread

\* an unlock that leaves the mutex with its holder
UnlockMutexKeeps(mutex) == mutex

\* std::mutex::unlock
UnlockMutex(mutex) == NoThread

LogLock(t) ==
  /\ pc[t] = "log_lock"
  /\ Acquirable(m_logMutex)
  /\ m_logMutex' = t
  /\ pc' = [pc EXCEPT ![t] = "log_cs"]
  /\ UNCHANGED <<config, m_lastFlushTime, writer, cout, now, local, ret, alive,
                 nCalls, nInits, admitted, enq, movedFrom, wallClock, timestampBuffer, lastDrain>>

\* logEntry.size() read after std::move(logEntry): the moved-from string is
\* left in a valid but unspecified state; the library of the build decides
\* (libstdc++, libc++ and the MSVC library leave it empty)
MovedFromSize(entry, moved) == IF moved = "empty" THEN 0 ELSE entry.len

\* m_messageBuffer.push_back(std::move(logEntry)); m_currentFileSize += logEntry.size();
Enqueue(w, entry, moved) ==
  [w EXCEPT !.buf = Append(@, entry), !.size = @ + MovedFromSize(entry, moved)]

\* a drain test that lets the buffer reach the capacity
FlushDueAboveCapacity(w, elapsedMs) ==
  Len(w.buf) > LOG_BUFFER_CAPACITY \/ elapsedMs >= FLUSH_INTERVAL_MS

\* the test that decides whether log drains the buffer
FlushDue(w, elapsedMs) ==
  Len(w.buf) >= LOG_BUFFER_CAPACITY \/ elapsedMs >= FLUSH_INTERVAL_MS

\* a mirror that ignores the console setting
ConsoleWriteAlways(out, enabled, entry) == Append(out, entry)

\* if (m_consoleOutput) std::cout << logEntry;
ConsoleWrite(out, enabled, entry) == IF enabled THEN Append(out, entry) ELSE out

\* the critical section of log, from lockMutex() to unlockMutex()
LogBody(t, e) ==
  /\ pc[t] = "log_cs"
  /\ LET entry == LogEntry(local[t].id, local[t].level, local[t].ts, local[t].msgLen)
         w1 == OpenLogFile(W, m_logFilePath, e.open1)
         w2 == CheckRotation(w1, m_logFilePath, m_maxFileSize, entry.len, e)
         w3 == Enqueue(w2, entry, movedFrom)
         w4 == IF FlushDue(w3, now - m_lastFlushTime) THEN FlushBuffer(w3, e.wrOk) ELSE w3
     IN /\ cout' = ConsoleWrite(cout, m_consoleOutput, entry)
        /\ IF ~w1.ok
           THEN SetW(w1) /\ enq' = enq /\ lastDrain' = lastDrain
           ELSE /\ SetW(w4)
                /\ enq' = Append(enq, entry.id)
                /\ lastDrain' = IF w2.rot # w1.rot \/ FlushDue(w3, now - m_lastFlushTime)
                                THEN now ELSE lastDrain
  /\ m_logMutex' = UnlockMutex(m_logMutex)
  /\ pc' = [pc EXCEPT ![t] = "idle"]
  /\ local' = [local EXCEPT ![t] = NoLocal]
  /\ UNCHANGED <<config, m_lastFlushTime, now, ret, alive, nCalls, nInits, admitted,
                 movedFrom, wallClock, timestampBuffer>>

(* ---------------------------- Logger::flush ---------------------------- *)
FlushCall(t) ==
  /\ alive
  /\ pc[t] = "idle"
  /\ pc' = [pc EXCEPT ![t] = "flush_lock"]
  /\ local' = [local EXCEPT ![t] = [op |-> "flush"]]
  /\ UNCHANGED <<config, m_lastFlushTime, m_logMutex, writer, cout, now, ret, alive,
                 nCalls, nInits, admitted, enq, movedFrom, wallClock, timestampBuffer, lastDrain>>

FlushLock(t) ==
  /\ pc[t] = "flush_lock"
  /\ Acquirable(m_logMutex)
  /\ m_logMutex' = t
  /\ pc' = [pc EXCEPT ![t] = "flush_cs"]
  /\ UNCHANGED <<config, m_lastFlushTime, writer, cout, now, local, ret, alive,
                 nCalls, nInits, admitted, enq, movedFrom, wallClock, timestampBuffer, lastDrain>>

FlushBody(t, wrOk) ==
  /\ pc[t] = "flush_cs"
  /\ SetW(FlushBuffer(W, wrOk))
  /\ lastDrain' = now
  /\ m_logMutex' = UnlockMutex(m_logMutex)
  /\ pc' = [pc EXCEPT ![t] = "idle"]
  /\ UNCHANGED <<config, m_lastFlushTime, cout, now, local, ret, alive, nCalls,
                 nInits, admitted, enq, movedFrom, wallClock, timestampBuffer>>

(* ------------------------------ setLevel ------------------------------- *)
\* a setLevel that also discards the pending lines the new threshold excludes
SetLevelPurging(level) ==
  /\ alive
  /\ \E t \in DOMAIN pc : pc[t] = "idle"
  /\ m_currentLevel' = level
  /\ m_messageBuffer' = SelectSeq(m_messageBuffer, LAMBDA line : line.lvl <= level)
  /\ UNCHANGED <<m_initialized, m_logFilePath, m_consoleOutput, m_maxFileSize,
                 m_lastFlushTime, m_logMutex, m_logFile, m_currentFileSize, fs, dirs,
                 cerr, rot, fault, cout, now, pc, local, ret,
                 alive, nCalls, nInits, admitted, enq, movedFrom, wallClock, timestampBuffer, lastDrain>>

SetLevel(level) ==
  /\ alive
  /\ \E t \in DOMAIN pc : pc[t] = "idle"
  /\ m_currentLevel' = level
  /\ UNCHANGED <<m_initialized, m_logFilePath, m_consoleOutput, m_maxFileSize,
                 m_lastFlushTime, m_logMutex, writer, cout, now, pc, local, ret,
                 alive, nCalls, nInits, admitted, enq, movedFrom, wallClock, timestampBuffer, lastDrain>>

(* -------------------------- setConsoleOutput --------------------------- *)
SetConsoleOutput(enable) ==
  /\ alive
  /\ \E t \in DOMAIN pc : pc[t] = "idle"
  /\ m_consoleOutput' = enable
  /\ UNCHANGED <<m_initialized, m_currentLevel, m_logFilePath, m_maxFileSize,
                 m_lastFlushTime, m_logMutex, writer, cout, now, pc, local, ret,
                 alive, nCalls, nInits, admitted, enq, movedFrom, wallClock, timestampBuffer, lastDrain>>

(* -------------------- error, warning, info, debug ---------------------- *)
Wrappers == {"error", "warning", "info", "debug"}

\* the LogLevel constant each of the four functions tests and passes to log
WrapperLevel(op) ==
  CASE op = "error" -> ERR
    [] op = "warning" -> WARNING
    [] op = "info" -> INFO
    [] op = "debug" -> DEBUG

WrapperCall(t, op, msgLen) ==
  /\ alive
  /\ pc[t] = "idle"
  /\ nCalls < MaxEmits
  /\ local' = [local EXCEPT ![t] = [op |-> op, msgLen |-> msgLen]]
  /\ pc' = [pc EXCEPT ![t] = "wrap_check"]
  /\ UNCHANGED <<config, m_lastFlushTime, m_logMutex, writer, cout, now, ret, alive,
                 nCalls, nInits, admitted, enq, movedFrom, wallClock, timestampBuffer, lastDrain>>

\* a wrapper that formats the message before it looks at the level
WrapperCheckRendersFirst(t) ==
  /\ pc[t] = "wrap_check"
  /\ pc' = [pc EXCEPT ![t] = "wrap_render"]
  /\ UNCHANGED <<config, m_lastFlushTime, m_logMutex, writer, cout, now, local, ret,
                 alive, nCalls, nInits, admitted, enq, movedFrom, wallClock, timestampBuffer, lastDrain>>

\* if (!m_initialized || LogLevel::X > m_currentLevel) return;
WrapperCheck(t) ==
  /\ pc[t] = "wrap_check"
  /\ IF Filtered(m_initialized, WrapperLevel(local[t].op), m_currentLevel)
     THEN /\ pc' = [pc EXCEPT ![t] = "idle"]
          /\ local' = [local EXCEPT ![t] = NoLocal]
     ELSE /\ pc' = [pc EXCEPT ![t] = "wrap_render"]
          /\ local' = local
  /\ UNCHANGED <<config, m_lastFlushTime, m_logMutex, writer, cout, now, ret,
                 alive, nCalls, nInits, admitted, enq, movedFrom, wallClock, timestampBuffer, lastDrain>>

\* vsnprintf(buffer, m_bufferSize, format, args); log(LogLevel::X, "%s", buffer);
WrapperRender(t) ==
  /\ pc[t] = "wrap_render"
  /\ nCalls' = nCalls + 1
  /\ local' = [local EXCEPT ![t] = [op |-> "log", id |-> nCalls + 1,
                                    level |-> WrapperLevel(local[t].op),
                                    msgLen |-> Rendered(local[t].msgLen), ts |-> 0]]
  /\ pc' = [pc EXCEPT ![t] = "log_check"]
  /\ UNCHANGED <<config, m_lastFlushTime, m_logMutex, writer, cout, now, ret, alive,
                 nInits, admitted, enq, movedFrom, wallClock, timestampBuffer, lastDrain>>

(* --------------------------- Logger::~Logger --------------------------- *)
\* a destructor that releases the stream before it writes the pending lines
DestructorCloseFirst(wrOk) ==
  /\ alive
  /\ \A t \in DOMAIN pc : pc[t] = "idle"
  /\ alive' = FALSE
  /\ IF m_initialized
     THEN LET w1 == CloseLogFile(W)
              w2 == FlushBuffer(w1, wrOk)
          IN SetW(StreamWrite(w2, <<ShutdownMsg(now)>>, wrOk))
     ELSE UNCHANGED writer
  /\ lastDrain' = IF m_initialized THEN now ELSE lastDrain
  /\ UNCHANGED <<config, m_lastFlushTime, m_logMutex, cout, now, pc, local, ret,
                 nCalls, nInits, admitted, enq, movedFrom, wallClock, timestampBuffer>>

\* the static instance is destroyed at process exit, after the callers are done
Destructor(wrOk) ==
  /\ alive
  /\ \A t \in DOMAIN pc : pc[t] = "idle"
  /\ alive' = FALSE
  /\ IF m_initialized
     THEN LET w1 == FlushBuffer(W, wrOk)
              w2 == StreamWrite(w1, <<ShutdownMsg(now)>>, wrOk)
          IN SetW(CloseLogFile(w2))
     ELSE UNCHANGED writer
  /\ lastDrain' = IF m_initialized THEN now ELSE lastDrain
  /\ UNCHANGED <<config, m_lastFlushTime, m_logMutex, cout, now, pc, local, ret,
                 nCalls, nInits, admitted, enq, movedFrom, wallClock, timestampBuffer>>

(* ------------------------------- system -------------------------------- *)
\* the calls of the threads ths, with the levels lvls and the message lengths
\* lens the callers use, the thresholds thrs they set, and the outcomes
\* opens, oks, dres the environment produces
Calls(ths, lvls, lens, thrs, opens, oks, dres) ==
  \/ \E t \in ths, a \in InitArgs : InitCall(t, a)
  \/ \E t \in ths : InitCheck(t)
  \/ \E t \in ths, d \in dres, o \in opens, wr \in oks : InitBody(t, d, o, wr)
  \/ \E t \in ths, l \in lvls, n \in lens : LogCall(t, l, n)
  \/ \E t \in ths : LogCheck(t)
  \/ \E t \in ths : LogLock(t)
  \/ \E t \in ths, e \in Env :
       /\ e.open1 \in opens /\ e.open2 \in opens
       /\ e.wrOk \in oks /\ e.rmOk \in oks /\ e.mvOk \in oks
       /\ LogBody(t, e)
  \/ \E t \in ths : FlushCall(t)
  \/ \E t \in ths : FlushLock(t)
  \/ \E t \in ths, wr \in oks : FlushBody(t, wr)
  \/ \E l \in thrs : SetLevel(l)
  \/ \E wr \in oks : Destructor(wr)

\* concurrent callers, no failure of the environment
Init == Constructed(Threads)
Next ==
  \/ Tick
  \/ Calls(Threads, ConcLevels, ConcMsgLens, ConcThresholds, {"app"}, {TRUE}, {"created"})
Spec == Init /\ [][Next]_vars

\* concurrent callers of log and flush on an initialized logger
InitEmit == \E a \in InitArgs, d \in InitialDisk : Initialized(Threads, a, d)
NextEmit ==
  \/ Tick
  \/ \E t \in Threads, l \in ConcLevels, n \in ConcMsgLens : LogCall(t, l, n)
  \/ \E t \in Threads : LogCheck(t)
  \/ \E t \in Threads : LogLock(t)
  \/ \E t \in Threads, e \in Env :
       /\ e.open1 = "app" /\ e.open2 = "app" /\ e.wrOk /\ e.rmOk /\ e.mvOk
       /\ LogBody(t, e)
  \/ \E t \in Threads : FlushCall(t)
  \/ \E t \in Threads : FlushLock(t)
  \/ \E t \in Threads : FlushBody(t, TRUE)
SpecEmit == InitEmit /\ [][NextEmit]_vars

\* two callers of log and flush that contend for the mutex, on an
\* initialized logger whose file may fail to open, every caller scheduled
\* fairly: a thread that can take a step eventually takes it, and a thread
\* that waits for the mutex gets it if it is free again and again
Contenders == {1, 2}
InitLive == \E a \in InitArgs, d \in InitialDisk :
              a.level = DEBUG /\ d.fs # <<>> /\ Initialized(Contenders, a, d)
LogBodyLive(t) ==
  \E e \in Env : e.wrOk /\ e.rmOk /\ e.mvOk /\ LogBody(t, e)
NextLive ==
  \/ \E t \in Contenders, l \in ConcLevels, n \in ConcMsgLens : LogCall(t, l, n)
  \/ \E t \in Contenders : LogCheck(t)
  \/ \E t \in Contenders : LogLock(t)
  \/ \E t \in Contenders : LogBodyLive(t)
  \/ \E t \in Contenders : FlushCall(t)
  \/ \E t \in Contenders : FlushLock(t)
  \/ \E t \in Contenders : FlushBody(t, TRUE)
Fairness ==
  \A t \in Contenders :
    /\ WF_vars(LogCheck(t))
    /\ SF_vars(LogLock(t))
    /\ WF_vars(LogBodyLive(t))
    /\ SF_vars(FlushLock(t))
    /\ WF_vars(FlushBody(t, TRUE))
SpecLive == InitLive /\ [][NextLive]_vars /\ Fairness

\* one caller, every level and threshold, no failure of the environment
InitSeq == Constructed({1})
NextSeq == Calls({1}, LogLevel, ConcMsgLens, LogLevel, {"app"}, {TRUE}, {"created"})
SpecSeq == InitSeq /\ [][NextSeq]_vars

\* one caller, short and long messages, no failure of the environment
NextRot ==
  \/ Tick
  \/ Calls({1}, ConcLevels, MsgLens, ConcThresholds, {"app"}, {TRUE}, {"created"})
SpecRot == InitSeq /\ [][NextRot]_vars

\* one caller, with the failures the environment can produce
NextFault ==
  \/ Calls({1}, ConcLevels, ConcMsgLens, {DEBUG}, OpenRes, BOOLEAN,
           {"created", "error"})
SpecFault == InitSeq /\ [][NextFault]_vars

\* one caller of init, setLevel and the per-level functions, no failure of
\* the environment
NextWrap ==
  \/ \E a \in InitArgs : InitCall(1, a)
  \/ InitCheck(1)
  \/ InitBody(1, "created", "app", TRUE)
  \/ \E op \in Wrappers, n \in ConcMsgLens : WrapperCall(1, op, n)
  \/ WrapperCheck(1)
  \/ WrapperRender(1)
  \/ LogCheck(1)
  \/ LogLock(1)
  \/ \E e \in Env :
       /\ e.open1 = "app" /\ e.open2 = "app" /\ e.wrOk /\ e.rmOk /\ e.mvOk
       /\ LogBody(1, e)
  \/ \E l \in ConcThresholds : SetLevel(l)
SpecWrap == InitSeq /\ [][NextWrap]_vars

\* concurrent callers of log, flush and setConsoleOutput on an initialized
\* logger
NextConsole ==
  \/ \E t \in Threads, l \in ConcLevels, n \in ConcMsgLens : LogCall(t, l, n)
  \/ \E t \in Threads : LogCheck(t)
  \/ \E t \in Threads : LogLock(t)
  \/ \E t \in Threads, e \in Env :
       /\ e.open1 = "app" /\ e.open2 = "app" /\ e.wrOk /\ e.rmOk /\ e.mvOk
       /\ LogBody(t, e)
  \/ \E t \in Threads : FlushCall(t)
  \/ \E t \in Threads : FlushLock(t)
  \/ \E t \in Threads : FlushBody(t, TRUE)
  \/ \E b \in BOOLEAN : SetConsoleOutput(b)
SpecConsole == InitEmit /\ [][NextConsole]_vars

\* one caller, with another process that may create the log directory
\* while init is creating it
NextRace ==
  \/ Calls({1}, ConcLevels, ConcMsgLens, {DEBUG}, {"app"}, {TRUE},
           {"created", "error", "raced"})
SpecRace == InitSeq /\ [][NextRace]_vars

(* ------------------------ Logger::getTimestamp ------------------------- *)
\* the seconds (to_time_t) and the number printed by %03ld after the dot:
\* duration_cast<microseconds>(now.time_since_epoch()) % 1000
getTimestamp(us) == [written |-> TRUE, sec |-> us \div 1000000, mmm |-> us % 1000]

\* the readings of the system clock the timestamps are taken at: seconds,
\* milliseconds within the second, microseconds within the millisecond
WallTimes ==
  { sec * 1000000 + ms * 1000 + us :
      sec \in 0..MaxSeconds, ms \in {0, 1, 234, 500, 998, 999},
      us \in {0, 1, 499, 500, 567, 999} }

GetTimestamp ==
  /\ timestampBuffer' = getTimestamp(wallClock)
  /\ UNCHANGED <<config, m_lastFlushTime, m_logMutex, writer, cout, now, pc, local, ret,
                 alive, nCalls, nInits, admitted, enq, movedFrom, lastDrain, wallClock>>

\* getTimestamp at the readings of the clock
InitClock == \E us \in WallTimes : ConstructedAt({1}, us)
NextClock == GetTimestamp
SpecClock == InitClock /\ [][NextClock]_vars

(* ------------------------- what is checked ---------------------------- *)
AllIdle == \A t \in DOMAIN pc : pc[t] = "idle"

IsMsg(line) == line.kind = "msg"

\* the ids of the caller's lines in a sequence of lines, in order
MsgIds(lines) ==
  LET msgs == SelectSeq(lines, IsMsg) IN [i \in 1..Len(msgs) |-> msgs[i].id]

Range(q) == {q[i] : i \in 1..Len(q)}

\* q is the last Len(q) elements of r
IsSuffix(q, r) ==
  /\ Len(q) <= Len(r)
  /\ \A i \in 1..Len(q) : q[i] = r[Len(r) - Len(q) + i]

\* q is a run of consecutive elements of r
IsSegment(q, r) ==
  \/ q = <<>>
  \/ \E k \in 0..(Len(r) - Len(q)) : \A i \in 1..Len(q) : q[i] = r[k + i]

\* the content of file f, nothing when it does not exist
Content(f) == IF f \in DOMAIN fs THEN fs[f] ELSE <<>>

InCritical(t) == pc[t] \in {"log_cs", "flush_cs"}

\* C1: the lines of the file the logger writes to, followed by the pending
\* lines, are the most recently enqueued lines in the order of their
\* push_back, none skipped; and every file holds a run of consecutive lines
\* of the enqueue order.
C1_WriteOrder ==
  /\ m_logFile.open =>
        IsSuffix(MsgIds(Content(m_logFile.path)) \o MsgIds(m_messageBuffer), enq)
  /\ \A f \in DOMAIN fs : IsSegment(MsgIds(fs[f]), enq)

\* two lines enqueued against the order of their calls and drained together
C1_Witness ==
  /\ m_logFile.open
  /\ Len(enq) >= 2
  /\ enq[1] > enq[2]
  /\ m_messageBuffer = <<>>
  /\ {enq[1], enq[2]} \subseteq Range(MsgIds(Content(m_logFile.path)))

\* C2: when no rotation has happened, every caller has returned and the
\* buffer has been flushed, the file holds the line of every admitted call
\* exactly once; and at no time are two threads inside a critical section.
C2_ThreadSafety ==
  /\ (alive /\ AllIdle /\ m_messageBuffer = <<>> /\ rot = 0 /\ m_logFile.open) =>
        LET ids == MsgIds(Content(m_logFile.path)) IN
          /\ Range(ids) = admitted
          /\ Len(ids) = Cardinality(admitted)
  /\ \A t, u \in DOMAIN pc : (InCritical(t) /\ InCritical(u)) => t = u

\* both threads have logged, the later call first, and everything is flushed
C2_Witness ==
  /\ alive /\ AllIdle /\ m_messageBuffer = <<>> /\ rot = 0 /\ m_logFile.open
  /\ Cardinality(admitted) >= 2
  /\ Len(enq) >= 2 /\ enq[1] > enq[2]
  /\ Len(MsgIds(Content(m_logFile.path))) = Cardinality(admitted)


\* thread t leaves the position at in this step
Leaves(t, at) == pc[t] = at /\ pc'[t] # at

Msgs(lines) == SelectSeq(lines, IsMsg)

NoOldContent == \A f \in DOMAIN fs : \A i \in 1..Len(fs[f]) : fs[f][i].kind # "old"

\* C3: on a file opened at size 0, once the lines emitted so far add up to
\* more than maxFileSize a rotation has happened, and after a rotation a
\* backup file exists.
C3_RotatesOnCumulativeSize ==
  (m_initialized /\ NoOldContent) =>
     IF rot = 0
     THEN Bytes(Msgs(Content(m_logFilePath) \o m_messageBuffer)) <= m_maxFileSize
     ELSE Bak(m_logFilePath) \in DOMAIN fs

\* C4: the first rotation moves the whole file, with the pending lines
\* written behind it in order, to the backup, and leaves the triggering line
\* as the only line of the new file and buffer; after it, backup, file and
\* buffer together are the enqueue sequence.
C4_RotationKeepsAll ==
  [][ /\ (rot = 0 /\ rot' = 1) =>
           \E t \in DOMAIN pc :
             /\ Leaves(t, "log_cs")
             /\ Bak(m_logFilePath) \in DOMAIN fs'
             /\ fs'[Bak(m_logFilePath)] = Content(m_logFilePath) \o m_messageBuffer
             /\ m_logFilePath \in DOMAIN fs'
             /\ MsgIds(fs'[m_logFilePath] \o m_messageBuffer') = <<local[t].id>>
             /\ enq' = Append(MsgIds(fs'[Bak(m_logFilePath)]), local[t].id)
      /\ (rot' = 1 /\ m_logFilePath \in DOMAIN fs' /\ Bak(m_logFilePath) \in DOMAIN fs') =>
           MsgIds(fs'[Bak(m_logFilePath)] \o fs'[m_logFilePath] \o m_messageBuffer') = enq'
    ]_vars

\* a rotation that found a pending line, and a line written after it
C4_Witness ==
  /\ rot = 1
  /\ Len(enq) >= 3
  /\ Bak(m_logFilePath) \in DOMAIN fs
  /\ MsgIds(fs[Bak(m_logFilePath)]) = <<enq[1]>>
  /\ MsgIds(Content(m_logFilePath)) = <<enq[2], enq[3]>>
  /\ movedFrom = "empty"

\* C5: an initialized logger passes a call at level L exactly when L is at
\* most the threshold at that moment; and once the buffer is flushed the
\* files hold the lines of exactly the calls that passed.
C5_LevelFilter ==
  [][ /\ \A t \in DOMAIN pc :
           (Leaves(t, "log_check") /\ m_initialized) =>
              /\ (pc'[t] = "log_lock") <=> (local[t].level <= m_currentLevel)
              /\ (local[t].id \in admitted') <=> (local[t].level <= m_currentLevel)
      /\ (AllIdle /\ m_messageBuffer = <<>> /\ rot <= 1)' =>
           (Range(MsgIds(Content(Bak(m_logFilePath)) \o Content(m_logFilePath))) = admitted)'
    ]_vars

\* threshold WARNING: of three calls only those at ERROR or WARNING are in the file
C5_Witness ==
  /\ m_initialized /\ AllIdle /\ m_messageBuffer = <<>> /\ rot = 0
  /\ m_currentLevel = WARNING
  /\ nCalls = 3
  /\ Cardinality(admitted) = 2
  /\ \E i, j \in 1..Len(Content(m_logFilePath)) :
       /\ Content(m_logFilePath)[i].kind = "msg" /\ Content(m_logFilePath)[i].lvl = ERR
       /\ Content(m_logFilePath)[j].kind = "msg" /\ Content(m_logFilePath)[j].lvl = WARNING

C7_FilteredIsNoop ==
  [][ \A t \in DOMAIN pc :
        (Leaves(t, "log_check") /\ (~m_initialized \/ local[t].level > m_currentLevel)) =>
           /\ pc'[t] = "idle"
           /\ UNCHANGED <<config, writer, cout, m_lastFlushTime, m_logMutex, enq, admitted>>
    ]_vars

\* calls were made on an initialized logger and none passed
C7_Witness ==
  /\ m_initialized /\ AllIdle
  /\ nCalls >= 2
  /\ admitted = {}
  /\ m_messageBuffer = <<>> /\ cout = <<>> /\ enq = <<>>

\* the parent directory of p is missing, or the stream is not open
InitFailedAfter(p) ==
  \/ ParentPath(p) # "" /\ ParentPath(p) \notin dirs
  \/ ~m_logFile.open

NoMsgAnywhere == \A f \in DOMAIN fs : MsgIds(fs[f]) = <<>>

\* C8: init returns false exactly when the directory could not be created
\* or the file could not be opened, and the logger is then still
\* uninitialized; as long as it is uninitialized no log call buffers,
\* writes or prints anything.
C8_FailedInit ==
  [][ /\ \A t \in DOMAIN pc :
           Leaves(t, "init_body") =>
              /\ ret'[t] = IF InitFailedAfter(local[t].logFilePath)' THEN "false" ELSE "true"
              /\ m_initialized' = (ret'[t] = "true")
      /\ (~m_initialized)' =>
           (m_messageBuffer = <<>> /\ enq = <<>> /\ cout = <<>> /\ admitted = {}
            /\ NoMsgAnywhere)'
    ]_vars

\* init has failed and log calls made since have left no trace
C8_Witness ==
  /\ ~m_initialized /\ AllIdle
  /\ \E t \in DOMAIN pc : ret[t] = "false"
  /\ nCalls >= 1
  /\ fault >= 1

\* C9: the init that initializes the logger appends exactly one marker line
\* to the file, on disk when init returns, and sets the size counter to the
\* size the file had before plus the length of the marker.
C9_InitMarker ==
  [][ \A t \in DOMAIN pc :
        (Leaves(t, "init_body") /\ ret'[t] = "true") =>
           LET p == local[t].logFilePath IN
             /\ p \in DOMAIN fs'
             /\ fs'[p] = Append(Content(p), InitMessage(now))
             /\ m_currentFileSize' = Bytes(Content(p)) + InitMarkerLen
             /\ m_initialized'
    ]_vars

\* initialized on a file that had content: the marker follows it
C9_Witness ==
  /\ m_initialized /\ nCalls = 0 /\ alive
  /\ Len(Content(m_logFilePath)) = 2
  /\ Content(m_logFilePath)[1] = OldLine
  /\ Content(m_logFilePath)[2].kind = "init"
  /\ m_currentFileSize = OldLine.len + InitMarkerLen

\* C10: flush starts its critical section only when no log call holds the
\* lock, and on an initialized logger with an open file it ends with the
\* buffer empty and the pending lines appended, in order, to the file.
C10_FlushPostcondition ==
  [][ \A t \in DOMAIN pc :
        /\ Leaves(t, "flush_lock") => \A u \in DOMAIN pc : pc[u] # "log_cs"
        /\ (Leaves(t, "flush_cs") /\ m_initialized /\ m_logFile.open) =>
              /\ m_messageBuffer' = <<>>
              /\ fs' = [fs EXCEPT ![m_logFile.path] = @ \o m_messageBuffer]
              /\ m_logMutex' = NoThread
    ]_vars

\* a flush has written two lines that were pending
C10_Witness ==
  \E t \in DOMAIN pc :
    /\ pc[t] = "idle" /\ local[t].op = "flush"
    /\ m_initialized /\ alive /\ now = 0 /\ rot = 0
    /\ m_messageBuffer = <<>>
    /\ Len(enq) = 2
    /\ MsgIds(Content(m_logFile.path)) = enq

\* the lines of the files the logger has written (file and backup) and of the buffer
Kept == Range(Content(m_logFilePath)) \cup Range(Content(Bak(m_logFilePath)))
          \cup Range(m_messageBuffer)

\* C11: a change of the threshold on an initialized logger leaves the pending
\* lines, the files and the console as they are; a pending line whose level
\* the threshold now excludes stays pending until a drain writes it to the
\* file; and a log call is tested against the threshold in force when it
\* starts.
C11_SetLevelLater ==
  [][ /\ (m_initialized /\ m_currentLevel' # m_currentLevel) =>
           UNCHANGED <<writer, cout, enq, admitted, m_lastFlushTime>>
      /\ \A i \in 1..Len(m_messageBuffer) :
           (alive /\ m_messageBuffer[i].lvl > m_currentLevel) => m_messageBuffer[i] \in Kept'
      /\ \A t \in DOMAIN pc :
           (Leaves(t, "log_check") /\ m_initialized) =>
              ((local[t].id \in admitted') <=> ~(local[t].level > m_currentLevel))
    ]_vars

\* a line admitted at INFO was pending when the threshold became WARNING, a
\* later INFO call was dropped, and the pending line is in the file
C11_Witness ==
  /\ m_initialized /\ AllIdle /\ alive
  /\ m_currentLevel = WARNING
  /\ nCalls = 2 /\ admitted = {1}
  /\ m_messageBuffer = <<>>
  /\ MsgIds(Content(m_logFilePath)) = <<1>>
  /\ Content(m_logFilePath)[Len(Content(m_logFilePath))].lvl = INFO
  /\ local[1].op = "flush"

\* C12: the destructor of an initialized logger appends the pending lines,
\* in order, and then the shutdown marker to the file of the stream, leaves
\* the buffer empty and the stream closed: the marker is the last line of
\* the file and every line that was pending is in front of it.
C12_TeardownDrains ==
  [][ (alive /\ ~alive' /\ m_initialized) =>
         /\ m_logFile.open /\ m_logFile.path = m_logFilePath
         /\ fs' = [fs EXCEPT ![m_logFilePath] =
                      @ \o m_messageBuffer \o <<ShutdownMsg(now)>>]
         /\ m_messageBuffer' = <<>>
         /\ ~m_logFile'.open
    ]_vars

\* two lines were pending at teardown and are in the file before the marker
C12_Witness ==
  /\ ~alive /\ m_initialized
  /\ now = 0 /\ rot = 0 /\ Len(enq) = 2
  /\ local[1] = NoLocal
  /\ LET c == Content(m_logFilePath) IN
       /\ Len(c) >= 3
       /\ c[Len(c)].kind = "shutdown"
       /\ MsgIds(c) = enq
       /\ c[Len(c) - 1].kind = "msg" /\ c[Len(c) - 2].kind = "msg"

\* C13: whenever no caller is in its critical section, the size counter of
\* an initialized logger with an open file is at least the bytes of the file
\* plus the bytes of the pending lines.
C13_SizeCounterUpperBound ==
  (m_initialized /\ alive /\ m_logMutex = NoThread /\ m_logFile.open) =>
     m_currentFileSize >= Bytes(Content(m_logFile.path)) + Bytes(m_messageBuffer)

\* C14: a log call that reaches its critical section rotates exactly when
\* the size counter plus the length of its line is greater than
\* m_maxFileSize; when it rotates, the backup is the file with the pending
\* lines behind it, without the line of the call, which is enqueued after it.
C14_RotationPredicate ==
  [][ \A t \in DOMAIN pc :
        (Leaves(t, "log_cs") /\ m_logFile.open) =>
           LET line == LogEntry(local[t].id, local[t].level, local[t].ts, local[t].msgLen) IN
             /\ rot' = IF m_currentFileSize + line.len > m_maxFileSize THEN rot + 1 ELSE rot
             /\ enq' = Append(enq, local[t].id)
             /\ (rot' # rot) =>
                   /\ Content(Bak(m_logFilePath))' = Content(m_logFilePath) \o m_messageBuffer
                   /\ Content(m_logFilePath)' \o m_messageBuffer' = <<line>>
             /\ (rot' = rot) =>
                   Content(m_logFilePath)' \o m_messageBuffer' =
                      Content(m_logFilePath) \o m_messageBuffer \o <<line>>
    ]_vars

\* a line has filled the budget exactly and was enqueued without a rotation
C14_Witness ==
  /\ m_initialized /\ AllIdle /\ alive
  /\ rot = 0 /\ nCalls = 1 /\ enq = <<1>>
  /\ Len(m_messageBuffer) = 1
  /\ Bytes(Content(m_logFilePath)) + m_messageBuffer[1].len = m_maxFileSize
  /\ Bak(m_logFilePath) \notin DOMAIN fs

\* C15: whenever no caller holds the lock the buffer holds fewer than
\* LOG_BUFFER_CAPACITY lines: the log call that brings it to the capacity
\* writes it out before it releases the lock.
C15_CapacityTrigger ==
  (m_logMutex = NoThread) => Len(m_messageBuffer) < LOG_BUFFER_CAPACITY

\* LOG_BUFFER_CAPACITY lines were enqueued within one flush interval, with
\* no rotation, and the last of them has emptied the buffer into the file
C15_Witness ==
  /\ m_initialized /\ AllIdle /\ alive
  /\ now = 0 /\ rot = 0
  /\ Len(enq) = LOG_BUFFER_CAPACITY
  /\ m_messageBuffer = <<>>
  /\ MsgIds(Content(m_logFilePath)) = enq
  /\ \A t \in DOMAIN pc : local[t] = NoLocal

\* C16: a log call that enqueues its line, without rotating, less than
\* FLUSH_INTERVAL_MS after the pending lines were last written out (by
\* flush, by a log call or by a rotation), and leaves the buffer below the
\* capacity, writes nothing: its line stays in the buffer.
C16_DrainRecordsTime ==
  [][ \A t \in DOMAIN pc :
        (/\ Leaves(t, "log_cs") /\ m_logFile.open /\ rot' = rot
         /\ Len(m_messageBuffer) + 1 < LOG_BUFFER_CAPACITY
         /\ now - lastDrain < FLUSH_INTERVAL_MS) =>
           /\ m_messageBuffer' =
                 Append(m_messageBuffer,
                        LogEntry(local[t].id, local[t].level, local[t].ts, local[t].msgLen))
           /\ fs' = fs
    ]_vars

\* C17: in every file the timestamps of the lines never decrease from one
\* line to the next (the clock of the model never goes back).
C17_TimestampOrder ==
  \A f \in DOMAIN fs :
    \A i, j \in 1..Len(fs[f]) : (i < j) => fs[f][i].ts <= fs[f][j].ts

\* C18: a step that changes the buffer, the size counter, the stream or
\* m_lastFlushTime is the critical section of a caller that holds the lock.
C18_MutatedUnderLock ==
  [][ (<<m_messageBuffer, m_currentFileSize, m_logFile, m_lastFlushTime>>' #
       <<m_messageBuffer, m_currentFileSize, m_logFile, m_lastFlushTime>>) =>
         \E t \in DOMAIN pc : m_logMutex = t /\ InCritical(t) /\ ~InCritical(t)'
    ]_vars

IsBackup(f) == \E p \in Paths : f = Bak(p)

\* C20: there is never more than one backup file; and every rotation leaves
\* as the backup exactly the file it closed, with the lines that were
\* pending written behind it, and none of the lines of the backup it
\* replaced.
C20_SingleBackup ==
  [][ /\ Cardinality({f \in DOMAIN fs : IsBackup(f)})' <= 1
      /\ (rot' # rot) =>
            /\ Bak(m_logFilePath) \in DOMAIN fs'
            /\ fs'[Bak(m_logFilePath)] = Content(m_logFilePath) \o m_messageBuffer
            /\ Range(Content(Bak(m_logFilePath))) \cap Range(fs'[Bak(m_logFilePath)]) = {}
    ]_vars

\* a second rotation has replaced the backup of the first: the backup holds
\* only lines of the generation before the current one
C20_Witness ==
  /\ rot = 2 /\ alive
  /\ Bak(m_logFilePath) \in DOMAIN fs
  /\ MsgIds(Content(Bak(m_logFilePath))) = <<enq[1]>>
  /\ Len(Content(Bak(m_logFilePath))) = 1
  /\ MsgIds(Content(m_logFilePath) \o m_messageBuffer) = <<enq[2]>>

\* the rename of a rotation has just failed: its diagnostic is the last one
RenameFailed ==
  /\ Len(cerr') = Len(cerr) + 1
  /\ cerr'[Len(cerr')] = "Failed to rename log file"

\* C21: when the rename of a rotation fails and nothing else does, the log
\* call returns with the mutex free, the stream is open again on the file
\* at the original path, and that file followed by
\* the buffer is what it was before with the line of the call behind it;
\* later calls that do not rotate add their line in the same way.
C21_RotationFailureNonFatal ==
  [][ \A t \in DOMAIN pc :
        (Leaves(t, "log_cs") /\ m_logFile.open /\ ~m_logFile.bad) =>
           LET line == LogEntry(local[t].id, local[t].level, local[t].ts, local[t].msgLen) IN
             /\ (rot' = rot + 1 /\ RenameFailed /\ fault' = fault + 1) =>
                   /\ pc'[t] = "idle" /\ m_logMutex' = NoThread
                   /\ m_logFile'.open /\ m_logFile'.path = m_logFilePath
                   /\ Content(m_logFilePath)' \o m_messageBuffer' =
                         Content(m_logFilePath) \o m_messageBuffer \o <<line>>
             /\ (rot' = rot /\ fault' = fault) =>
                   Content(m_logFilePath)' \o m_messageBuffer' =
                      Content(m_logFilePath) \o m_messageBuffer \o <<line>>
    ]_vars

\* a rename has failed, and the file still starts with what it held before
\* and holds the line that triggered the rotation and a later one
C21_Witness ==
  /\ m_initialized /\ AllIdle /\ alive
  /\ rot = 1 /\ fault = 1
  /\ cerr = <<"Failed to rename log file">>
  /\ Bak(m_logFilePath) \notin DOMAIN fs
  /\ Len(enq) = 2
  /\ m_messageBuffer = <<>>
  /\ Content(m_logFilePath)[1].kind \in {"old", "init"}
  /\ MsgIds(Content(m_logFilePath)) = enq

\* a write of the pending lines has just failed: the stream was good and
\* open, and is left open with its failure state set
DrainWriteFailed ==
  /\ \E t \in DOMAIN pc : InCritical(t) /\ pc'[t] = "idle"
  /\ m_logFile.open /\ ~m_logFile.bad
  /\ m_logFile'.open /\ m_logFile'.bad

\* C22: when the write of the pending lines fails, one diagnostic is written
\* to std::cerr, the buffer is empty afterwards, and none of the lines that
\* were pending is added to a file.
C22_DrainFailureReported ==
  [][ DrainWriteFailed =>
         /\ Len(cerr') = Len(cerr) + 1
         /\ m_messageBuffer' = <<>>
         /\ fs' = fs
    ]_vars


\* C23: error, warning, info and debug format their message only after the
\* test of m_initialized and of the level has let the call through: a call
\* that the test rejects returns without formatting or logging anything, and
\* the message a wrapper formats is passed to log at the wrapper's own level.
C23_WrapperFiltersBeforeRender ==
  [][ \A t \in DOMAIN pc :
        /\ (pc[t] = "wrap_render" /\ pc'[t] # "wrap_render") =>
              /\ m_initialized
              /\ WrapperLevel(local[t].op) <= m_currentLevel
              /\ pc'[t] = "log_check"
              /\ local'[t].level = WrapperLevel(local[t].op)
              /\ local'[t].msgLen = Min(local[t].msgLen, BUFFER_SIZE - 1)
        /\ (pc[t] = "wrap_check"
              /\ (~m_initialized \/ WrapperLevel(local[t].op) > m_currentLevel)) =>
              /\ pc'[t] \in {"wrap_check", "idle"}
              /\ nCalls' = nCalls
    ]_vars

\* error() has formatted its message on a logger whose threshold is WARNING
\* and has entered log with it, after an earlier line was enqueued
C23_Witness ==
  /\ m_initialized /\ m_currentLevel = WARNING
  /\ pc[1] = "log_check"
  /\ local[1].level = ERR
  /\ local[1].msgLen = 65
  /\ Len(enq) >= 1

\* the step is the end of the critical section of a log call by t
EndsLog(t) == pc[t] = "log_cs" /\ pc'[t] # "log_cs"

\* C24: the critical section of a log call writes the composed line to
\* std::cout once if m_consoleOutput is true when it runs and not at all
\* otherwise, the line written is the line that is enqueued, no other step
\* writes to std::cout, and setConsoleOutput decides for the calls after it.
C24_ConsoleMirror ==
  [][ /\ \A t \in DOMAIN pc :
           EndsLog(t) =>
             LET line == LogEntry(local[t].id, local[t].level, local[t].ts, local[t].msgLen)
                 all == Content(m_logFilePath)' \o m_messageBuffer'
             IN /\ m_consoleOutput => cout' = Append(cout, line)
                /\ ~m_consoleOutput => cout' = cout
                /\ enq' # enq => all[Len(all)] = line
      /\ (\A t \in DOMAIN pc : ~EndsLog(t)) => cout' = cout
    ]_vars

\* two lines were enqueued; the console was switched off for the first and
\* on for the second, and only the second is on std::cout
C24_Witness ==
  /\ m_initialized /\ AllIdle
  /\ enq = <<1, 2>>
  /\ MsgIds(cout) = <<2>>
  /\ m_consoleOutput


\* C25: every line the logger has written to a file, the "Logger
\* initialized" and "Logger shutdown" markers included, carries between its
\* second pair of brackets the five-character field of its level: ERROR,
\* "WARN ", "INFO " or DEBUG.
C25_LineFormat ==
  \A f \in DOMAIN fs : \A i \in 1..Len(fs[f]) :
     fs[f][i].kind \in {"msg", "init", "shutdown"} =>
        /\ fs[f][i].tag \in {"ERROR", "WARN ", "INFO ", "DEBUG"}
        /\ fs[f][i].tag = logLevelToString(fs[f][i].lvl)


\* C26: the number getTimestamp prints after the dot is the millisecond
\* within the current second of the system clock, truncated from its
\* microseconds: floor((microseconds mod 1000000) / 1000), within 0..999.
C26_TimestampMillis ==
  timestampBuffer.written =>
     /\ timestampBuffer.mmm = (wallClock % 1000000) \div 1000
     /\ timestampBuffer.mmm \in 0..999


\* C27: an init call fails with the directory diagnostic only if the parent
\* directory of the log file does not exist when the call returns; when the
\* directory exists, whoever created it, init does not fail for it.
C27_DirectoryExistsIsSuccess ==
  [][ \A t \in DOMAIN pc :
        (Leaves(t, "init_body") /\ ret'[t] = "false"
           /\ Len(cerr') > Len(cerr)
           /\ cerr'[Len(cerr')] = "Failed to create log directory") =>
              ParentPath(local[t].logFilePath) \notin dirs'
    ]_vars


\* C28: when init is called with another path on a logger that is
\* initialized and has its file open, the stream on the file that was open
\* is closed when the call returns.
C28_ReinitClosesFile ==
  [][ \A t \in DOMAIN pc :
        (Leaves(t, "init_check") /\ m_initialized /\ m_logFile.open
           /\ local[t].logFilePath # m_logFilePath) =>
              (pc'[t] = "idle" =>
                 ~(m_logFile'.open /\ m_logFile'.path = m_logFile.path))
    ]_vars


\* C29: when the disk held no log file before the logger opened its file,
\* the bytes of that file plus the bytes of the pending lines are at
\* most m_maxFileSize plus the lengths of the two marker lines (every line
\* of the callers being shorter than m_maxFileSize).
C29_SizeBound ==
  (m_initialized /\ NoOldContent) =>
     Bytes(Content(m_logFilePath)) + Bytes(m_messageBuffer)
        <= m_maxFileSize + InitMarkerLen + ShutdownMarkerLen


\* the positions of the "Logger initialized" lines in the files
InitMarkers ==
  UNION { { <<f, i>> : i \in { j \in 1..Len(fs[f]) : fs[f][j].kind = "init" } } :
          f \in DOMAIN fs }

\* C30: whatever the interleaving of the init calls of several threads, at
\* most one "Logger initialized" line is ever written, and the stream of an
\* initialized logger is open on the path stored in m_logFilePath.
C30_InitRunsOnce ==
  /\ Cardinality(InitMarkers) <= 1
  /\ (m_initialized /\ m_logFile.open) => m_logFile.path = m_logFilePath

====
